---- MODULE Spec2Model ----
(***************************************************************************)
(* A model of the restaurant booking API: the booking, availability and    *)
(* listing handlers over the relational tables they read and write.        *)
(*                                                                         *)
(* Every handler is one action, except create_booking_with_stripe, whose   *)
(* database statements (customer query, customer insert, reference         *)
(* uniqueness query, booking insert) are separate steps so that requests   *)
(* served by different workers interleave between them.  Those steps read  *)
(* only the customers table and the stored references and ids, which no    *)
(* other handler writes, so every other handler commutes with them and is  *)
(* enumerated only while no create request is in flight.                   *)
(*                                                                         *)
(* The database outlives the process: the application may start on tables  *)
(* that already hold bookings (Init).                                      *)
(*                                                                         *)
(* Besides the request handlers the model holds the start-up seeding       *)
(* (init_sample_data, one step per commit) and the migration script        *)
(* (DatabaseMigrator, one step per migrated table), each explored by a     *)
(* specification of its own.                                               *)
(*                                                                         *)
(* A handler's answer is the value of its _response operator in the state  *)
(* the request meets, and its writes are the table that operator returns;  *)
(* the handler's action commits that table.                                *)
(*                                                                         *)
(* A nullable column or an Optional form field is a set with at most one   *)
(* element: {} is None/NULL.                                               *)
(***************************************************************************)
EXTENDS Integers, Sequences, FiniteSets, TLC

VARIABLES users, restaurants, slots, reasons, customers, bookings, reqs, clock,
          reviews, boot, migrator, postgres

vars == <<users, restaurants, slots, reasons, customers, bookings, reqs, clock,
          reviews, boot, migrator, postgres>>

seeded == <<users, restaurants, slots, reasons>>

\* the start-up position, and the migration script's position and target
\* database: no request handler reads or writes them
offline == <<boot, migrator, postgres>>

----------------------------------------------------------------------------
(* Bounds of the model *)

\* utcnow() is read at most this many times: once per committed booking write
MaxClock == 2

(* Program constants *)

max_bookings_per_slot == 3

RefLen == 7

----------------------------------------------------------------------------
(* Input domains *)

Procs == {1, 2}

Time(h, m) == [h |-> h, m |-> m, s |-> 0]

Dates == {1, 2}

Times == {Time(18, 0), Time(19, 0)}

Email1 == "user1@example.com"
Email2 == "user2@example.com"

Token(sub, good) == [sub |-> sub, good |-> good]

\* bearer tokens a request can carry: two users' valid tokens, a valid token
\* whose subject is no user, and a token that does not decode
Tokens == {Token(Email1, TRUE), Token(Email2, TRUE),
           Token("ghost@example.com", TRUE), Token(Email1, FALSE)}

KnownNames == {"TheHungryUnicorn", "Sakura Sushi Bar"}

RestaurantNames == KnownNames \cup {"NoSuchPlace"}

\* the picks of the random generator that the model enumerates: a pattern is
\* repeated until k characters are drawn ("A7A7A7A", "QZ3QZ3Q", "0000000", ...)
RefDraws == <<(<<"A", "7">>), (<<"Q", "Z", "3">>), (<<"0">>), (<<"K", "9", "X", "2">>)>>

CreateForms ==
    {[VisitDate |-> 1, VisitTime |-> Time(18, 0), PartySize |-> 4, SpecialRequests |-> {}],
     [VisitDate |-> 1, VisitTime |-> Time(19, 0), PartySize |-> 7, SpecialRequests |-> {"window"}]}

UpdateForms ==
    {[VisitDate |-> {}, VisitTime |-> {}, PartySize |-> {}, SpecialRequests |-> {}],
     [VisitDate |-> {}, VisitTime |-> {Time(19, 0)}, PartySize |-> {}, SpecialRequests |-> {}],
     [VisitDate |-> {2}, VisitTime |-> {}, PartySize |-> {2}, SpecialRequests |-> {"vegan"}]}

ReasonIds == {2, 9}

Query(search, status, restaurant_name, date_from, date_to, sort_by, limit, offset) ==
    [search |-> search, status |-> status, restaurant_name |-> restaurant_name,
     date_from |-> date_from, date_to |-> date_to, sort_by |-> sort_by, limit |-> limit, offset |-> offset]

HistoryQueries ==
    {Query({}, {}, {}, {}, {}, "date_desc", 50, 0),
     Query({}, {"confirmed"}, {}, {}, {}, "date_asc", 1, 1),
     Query({<<"7", "a">>}, {}, {}, {2}, {}, "status", 50, 0),
     Query({<<"u", "s", "e", "r">>}, {}, {<<"s", "u", "s", "h", "i">>}, {}, {1}, "restaurant", 2, 0)}

StatusInputs == {"confirmed", "pending", "cancelled", "completed", "no_show", "deleted"}

PartySizes == {6, 7, 9}

----------------------------------------------------------------------------
(* Tables after init_sample_data *)

SeedRestaurants ==
    {[id |-> 1, name |-> "TheHungryUnicorn", cuisine_type |-> "European", max_party_size |-> 8],
     [id |-> 3, name |-> "Sakura Sushi Bar", cuisine_type |-> "Japanese", max_party_size |-> 6]}

Slot(i, r, d, t, m, a) ==
    [id |-> i, restaurant_id |-> r, date |-> d, time |-> t, max_party_size |-> m, available |-> a]

SeedSlots ==
    {Slot(1, 1, 1, Time(19, 0), 8, TRUE),
     Slot(2, 1, 2, Time(19, 0), 8, FALSE),
     Slot(3, 3, 1, Time(18, 0), 6, TRUE),
     Slot(4, 3, 1, Time(19, 0), 6, FALSE),
     Slot(5, 3, 2, Time(18, 0), 6, TRUE),
     Slot(6, 3, 2, Time(19, 0), 6, TRUE)}

SeedReasons == {[id |-> i] : i \in 1..5}

\* rows of an earlier run: two confirmed bookings of user 1 at one slot
StoredCustomers == {[id |-> 1, user_id |-> 1, first_name |-> "User1", surname |-> "Test"]}

StoredBooking(i, ref, at) ==
    [id |-> i, booking_reference |-> ref, restaurant_id |-> 3, customer_id |-> 1, user_id |-> 1,
     visit_date |-> 1, visit_time |-> Time(18, 0), party_size |-> 4, special_requests |-> {},
     status |-> "confirmed", cancellation_reason_id |-> {}, updated_at |-> at]

StoredBookings ==
    {StoredBooking(1, <<"A", "7", "A", "7", "A", "7", "A">>, 0 - 2),
     StoredBooking(2, <<"Q", "Z", "3", "Q", "Z", "3", "Q">>, 0 - 1)}

\* pwd_context.hash and pwd_context.verify
get_password_hash(password) == <<"bcrypt", password>>

verify_password(plain_password, hashed_password) == hashed_password = <<"bcrypt", plain_password>>

SeedUsers ==
    {[id |-> 1, username |-> "user1", email |-> Email1, password_hash |-> get_password_hash("secret1"),
      first_name |-> "User1", last_name |-> "Test", is_active |-> TRUE],
     [id |-> 2, username |-> "user2", email |-> Email2, password_hash |-> get_password_hash("secret2"),
      first_name |-> "User2", last_name |-> "Test", is_active |-> TRUE]}

----------------------------------------------------------------------------
(* Helpers *)

NextId(rows) == IF rows = {} THEN 1 ELSE 1 + CHOOSE n \in {r.id : r \in rows} : \A r \in rows : r.id <= n

The(S) == CHOOSE x \in S : TRUE

NoRef == <<>>

Idle == [pc |-> "idle", user_id |-> 0, rname |-> "", restaurant_id |-> 0,
         form |-> [VisitDate |-> 0, VisitTime |-> Time(0, 0), PartySize |-> 0, SpecialRequests |-> {}],
         customer_id |-> 0, ref |-> NoRef, refs0 |-> {}]

\* an HTTP answer: status, detail, the booking rows in its body, the bookings
\* table the handler leaves committed, and the slot entries or the list of
\* booking rows of a search or a listing, and the old and new status a
\* status update reports
Response(status, detail, body, table) ==
    [status |-> status, detail |-> detail, booking |-> body, bookings |-> table,
     available_slots |-> {}, listed |-> <<>>, old_status |-> {}, new_status |-> {}]

----------------------------------------------------------------------------
(* Authentication: the get_current_user dependency *)

\* (mutant) the dependency without the is_active check of lines 38-44
get_current_user_any(tok) ==
    LET payload == IF tok.good THEN {[sub |-> tok.sub]} ELSE {}
        found == {u \in users : \E p \in payload : u.email = p.sub}
    IN  IF payload = {} THEN [status |-> 401, detail |-> "Invalid token", user |-> {}]
        ELSE IF found = {} THEN [status |-> 401, detail |-> "User not found", user |-> {}]
        ELSE [status |-> 200, detail |-> "", user |-> found]

\* (mutant) the claims read without verifying signature or expiry
decode_token_unverified(tok) == {[sub |-> tok.sub]}

decode_token(tok) == IF tok.good THEN {[sub |-> tok.sub]} ELSE {}

get_current_user(tok) ==
    LET payload == decode_token(tok)
        found == {u \in users : \E p \in payload : u.email = p.sub}
    IN  IF payload = {} THEN [status |-> 401, detail |-> "Invalid token", user |-> {}]
        ELSE IF found = {} THEN [status |-> 401, detail |-> "User not found", user |-> {}]
        ELSE IF \E u \in found : ~u.is_active
             THEN [status |-> 401, detail |-> "Account has been deactivated", user |-> {}]
        ELSE [status |-> 200, detail |-> "", user |-> found]

Authenticated(tok) == get_current_user(tok).status = 200

Caller(tok) == The(get_current_user(tok).user).id

Unauthorized(tok) == Response(401, get_current_user(tok).detail, {}, bookings)

----------------------------------------------------------------------------
(* Booking references *)

ascii_uppercase ==
    {"A", "B", "C", "D", "E", "F", "G", "H", "I", "J", "K", "L", "M",
     "N", "O", "P", "Q", "R", "S", "T", "U", "V", "W", "X", "Y", "Z"}

digits == {"0", "1", "2", "3", "4", "5", "6", "7", "8", "9"}

Draw(n, k) == [i \in 1..k |-> RefDraws[n][((i - 1) % Len(RefDraws[n])) + 1]]

\* random.choices(population, k=k): k picks from population
random_choices(population, k) ==
    {Draw(n, k) : n \in {m \in 1..Len(RefDraws) : \A j \in 1..Len(RefDraws[m]) : RefDraws[m][j] \in population}}

Seen(ref) == (\E b \in bookings : b.booking_reference = ref) \/ (\E p \in Procs : reqs[p].ref = ref)

\* (mutant) k one short of the reference length
generate_short_reference == random_choices(ascii_uppercase \cup digits, RefLen - 1)

\* references not yet seen are interchangeable: of the draws that are neither
\* stored nor held by a request in flight, only the first is enumerated
generate_booking_reference ==
    {r \in random_choices(ascii_uppercase \cup digits, RefLen) :
        \A n \in 1..Len(RefDraws) :
            Draw(n, RefLen) = r => Seen(r) \/ \A m \in 1..(n - 1) : Seen(Draw(m, RefLen))}

\* references a request can name
RefInputs == random_choices(ascii_uppercase \cup digits, RefLen)

----------------------------------------------------------------------------
(* create_booking_with_stripe, one step per database statement *)

InFlight == {p \in Procs : reqs[p].pc # "idle"}

restaurant_by_name(rname) == {r \in restaurants : r.name = rname}

customer_of_user(uid) == {c \in customers : c.user_id = uid}

reference_taken(ref) == \E b \in bookings : b.booking_reference = ref

\* (mutant) the reference unique per restaurant only
booking_reference_unique_per_restaurant(row) ==
    \A b \in bookings :
        b.restaurant_id = row.restaurant_id => b.booking_reference # row.booking_reference

\* the unique constraint on bookings.booking_reference, checked at insert
booking_reference_unique(row) == \A b \in bookings : b.booking_reference # row.booking_reference

\* the Customer[...] form fields are not supplied: the user's names are used
NewCustomer(uid) ==
    LET u == The({x \in users : x.id = uid})
    IN  [id |-> NextId(customers), user_id |-> uid, first_name |-> u.first_name, surname |-> u.last_name]

\* (mutant) the booking stored without its user
NewBooking_without_user(req) ==
    [id |-> NextId(bookings),
     booking_reference |-> req.ref,
     restaurant_id |-> req.restaurant_id,
     customer_id |-> req.customer_id,
     user_id |-> 0,
     visit_date |-> req.form.VisitDate,
     visit_time |-> req.form.VisitTime,
     party_size |-> req.form.PartySize,
     special_requests |-> req.form.SpecialRequests,
     status |-> "confirmed",
     cancellation_reason_id |-> {},
     updated_at |-> clock]

NewBooking(req) ==
    [id |-> NextId(bookings),
     booking_reference |-> req.ref,
     restaurant_id |-> req.restaurant_id,
     customer_id |-> req.customer_id,
     user_id |-> req.user_id,
     visit_date |-> req.form.VisitDate,
     visit_time |-> req.form.VisitTime,
     party_size |-> req.form.PartySize,
     special_requests |-> req.form.SpecialRequests,
     status |-> "confirmed",
     cancellation_reason_id |-> {},
     updated_at |-> clock]

\* lines 52-54 after the authentication dependency: the refusal the handler
\* answers before it writes anything, or {} when it goes on
create_booking_lookup(tok, rname) ==
    IF ~Authenticated(tok) THEN {Unauthorized(tok)}
    ELSE IF restaurant_by_name(rname) = {} THEN {Response(404, "Restaurant not found", {}, bookings)}
    ELSE {}

\* lines 52-58: restaurant lookup, then the customer query; a new request is
\* served by the lowest idle worker
create_booking_begin(p, tok, rname, form) ==
    /\ reqs[p].pc = "idle"
    /\ \A q \in Procs : q < p => reqs[q].pc # "idle"
    /\ \/ /\ create_booking_lookup(tok, rname) # {}
          /\ UNCHANGED reqs
       \/ /\ create_booking_lookup(tok, rname) = {}
          /\ clock + Cardinality(InFlight) < MaxClock
          /\ \E r \in restaurant_by_name(rname) :
                LET req == [Idle EXCEPT !.user_id = Caller(tok), !.rname = rname,
                                        !.restaurant_id = r.id, !.form = form,
                                        !.refs0 = {b.booking_reference : b \in bookings}]
                IN  \/ /\ customer_of_user(Caller(tok)) = {}
                       /\ reqs' = [reqs EXCEPT ![p] = [req EXCEPT !.pc = "add_customer"]]
                    \/ \E c \in customer_of_user(Caller(tok)) :
                          reqs' = [reqs EXCEPT ![p] = [req EXCEPT !.pc = "gen_ref", !.customer_id = c.id]]
    /\ UNCHANGED <<seeded, offline, reviews, customers, bookings, clock>>

\* lines 59-69: insert and commit the customer
create_booking_add_customer(p) ==
    /\ reqs[p].pc = "add_customer"
    /\ customers' = customers \cup {NewCustomer(reqs[p].user_id)}
    /\ reqs' = [reqs EXCEPT ![p].pc = "gen_ref", ![p].customer_id = NewCustomer(reqs[p].user_id).id]
    /\ UNCHANGED <<seeded, offline, reviews, bookings, clock>>

\* lines 71-73: draw a candidate and query it; a taken candidate is drawn again
create_booking_gen_ref(p) ==
    /\ reqs[p].pc = "gen_ref"
    /\ \E ref \in generate_booking_reference :
          \/ /\ reference_taken(ref)
             /\ UNCHANGED reqs
          \/ /\ ~reference_taken(ref)
             /\ reqs' = [reqs EXCEPT ![p].pc = "insert", ![p].ref = ref]
    /\ UNCHANGED <<seeded, offline, reviews, customers, bookings, clock>>

\* (mutant) the insert refused once the slot holds max_bookings_per_slot
\* confirmed bookings
create_booking_insert_response_capped(p) ==
    LET row == NewBooking(reqs[p])
        held == {b \in bookings : b.status = "confirmed" /\ b.restaurant_id = row.restaurant_id
                                    /\ b.visit_date = row.visit_date /\ b.visit_time = row.visit_time}
    IN  IF Cardinality(held) >= max_bookings_per_slot
        THEN Response(400, "Slot is full", {}, bookings)
        ELSE IF booking_reference_unique(row)
        THEN Response(200, "confirmed", {row}, bookings \cup {row})
        ELSE Response(500, "Internal Server Error", {}, bookings)

\* (mutant) the insert refused unless an open slot of the restaurant at the
\* date and time takes the party
create_booking_insert_response_slotted(p) ==
    LET row == NewBooking(reqs[p])
    IN  IF ~\E sl \in slots :
                /\ sl.restaurant_id = row.restaurant_id /\ sl.date = row.visit_date
                /\ sl.time = row.visit_time /\ sl.available /\ row.party_size <= sl.max_party_size
        THEN Response(400, "No availability", {}, bookings)
        ELSE IF booking_reference_unique(row)
        THEN Response(200, "confirmed", {row}, bookings \cup {row})
        ELSE Response(500, "Internal Server Error", {}, bookings)

\* lines 75-96: insert and commit the booking; a duplicate reference raises
\* IntegrityError, which the handler does not catch
create_booking_insert_response(p) ==
    LET row == NewBooking(reqs[p])
    IN  IF booking_reference_unique(row)
        THEN Response(200, "confirmed", {row}, bookings \cup {row})
        ELSE Response(500, "Internal Server Error", {}, bookings)

create_booking_insert(p) ==
    /\ reqs[p].pc = "insert"
    /\ LET r == create_booking_insert_response(p)
       IN  /\ r.status = 200 => clock < MaxClock
           /\ bookings' = r.bookings
           /\ clock' = IF r.status = 200 THEN clock + 1 ELSE clock
    /\ reqs' = [reqs EXCEPT ![p] = Idle]
    /\ UNCHANGED <<seeded, offline, reviews, customers>>

----------------------------------------------------------------------------
(* get_booking, update_booking, cancel_booking *)

NotFound == "Booking not found or access denied"

\* a handler that commits reads utcnow(), which the clock bounds
Commit(r) ==
    /\ InFlight = {}
    /\ r.bookings # bookings => clock < MaxClock
    /\ bookings' = r.bookings
    /\ clock' = IF r.bookings # bookings THEN clock + 1 ELSE clock

\* (mutant) the query without the ownership filter
get_booking_query_any_owner(uid, rname, ref) ==
    {b \in bookings :
        /\ \E r \in restaurants : r.id = b.restaurant_id /\ r.name = rname
        /\ b.booking_reference = ref}

\* lines 107-116: the booking joined to its restaurant, filtered by restaurant
\* name, reference and owner
get_booking_query(uid, rname, ref) ==
    {b \in bookings :
        /\ \E r \in restaurants : r.id = b.restaurant_id /\ r.name = rname
        /\ b.booking_reference = ref
        /\ b.user_id = uid}

get_booking_response(tok, rname, ref) ==
    IF ~Authenticated(tok) THEN Unauthorized(tok)
    ELSE LET found == get_booking_query(Caller(tok), rname, ref)
         IN  IF found = {} THEN Response(404, NotFound, {}, bookings)
             ELSE Response(200, "", {The(found)}, bookings)

get_booking(tok, rname, ref) ==
    /\ Commit(get_booking_response(tok, rname, ref))
    /\ UNCHANGED <<seeded, offline, reviews, customers, reqs>>

\* lines 136-145
update_booking_query(uid, rname, ref) ==
    {b \in bookings :
        /\ \E r \in restaurants : r.id = b.restaurant_id /\ r.name = rname
        /\ b.booking_reference = ref
        /\ b.user_id = uid}

\* (mutant) the patch without the "is not None" test: an omitted field is
\* written as NULL
apply_update_overwrite(b, form) ==
    [b EXCEPT !.visit_date = IF form.VisitDate # {} THEN The(form.VisitDate) ELSE @,
              !.visit_time = IF form.VisitTime # {} THEN The(form.VisitTime) ELSE @,
              !.party_size = IF form.PartySize # {} THEN The(form.PartySize) ELSE @,
              !.special_requests = form.SpecialRequests]

\* lines 153-164: every supplied (non-None) field overwrites the column
apply_update(b, form) ==
    [b EXCEPT !.visit_date = IF form.VisitDate # {} THEN The(form.VisitDate) ELSE @,
              !.visit_time = IF form.VisitTime # {} THEN The(form.VisitTime) ELSE @,
              !.party_size = IF form.PartySize # {} THEN The(form.PartySize) ELSE @,
              !.special_requests = IF form.SpecialRequests # {} THEN form.SpecialRequests ELSE @]

updated_fields(form) ==
    form.VisitDate # {} \/ form.VisitTime # {} \/ form.PartySize # {} \/ form.SpecialRequests # {}

\* (mutant) the handler without the cancelled check of lines 150-151
update_booking_response_any_status(tok, rname, ref, form) ==
    IF ~Authenticated(tok) THEN Unauthorized(tok)
    ELSE LET found == update_booking_query(Caller(tok), rname, ref)
             b == The(found)
             row == [apply_update(b, form) EXCEPT !.updated_at = clock]
         IN  IF found = {} THEN Response(404, NotFound, {}, bookings)
             ELSE IF updated_fields(form)
                  THEN Response(200, "Booking updated successfully", {row}, (bookings \ {b}) \cup {row})
             ELSE Response(200, "Booking updated successfully", {b}, bookings)

update_booking_response(tok, rname, ref, form) ==
    IF ~Authenticated(tok) THEN Unauthorized(tok)
    ELSE LET found == update_booking_query(Caller(tok), rname, ref)
             b == The(found)
             row == [apply_update(b, form) EXCEPT !.updated_at = clock]
         IN  IF found = {} THEN Response(404, NotFound, {}, bookings)
             ELSE IF b.status = "cancelled"
                  THEN Response(400, "Cannot update a cancelled booking", {}, bookings)
             ELSE IF updated_fields(form)
                  THEN Response(200, "Booking updated successfully", {row}, (bookings \ {b}) \cup {row})
             ELSE Response(200, "Booking updated successfully", {b}, bookings)

update_booking(tok, rname, ref, form) ==
    /\ Commit(update_booking_response(tok, rname, ref, form))
    /\ UNCHANGED <<seeded, offline, reviews, customers, reqs>>

\* (mutant) the query without the ownership filter
cancel_booking_query_any_owner(uid, rname, ref) ==
    {b \in bookings :
        /\ \E r \in restaurants : r.id = b.restaurant_id /\ r.name = rname
        /\ b.booking_reference = ref}

\* lines 183-192
cancel_booking_query(uid, rname, ref) ==
    {b \in bookings :
        /\ \E r \in restaurants : r.id = b.restaurant_id /\ r.name = rname
        /\ b.booking_reference = ref
        /\ b.user_id = uid}

\* (mutant) the handler without the already-cancelled check of lines 197-198
cancel_booking_response_recancel(tok, rname, ref, cancellationReasonId) ==
    IF ~Authenticated(tok) THEN Unauthorized(tok)
    ELSE LET found == cancel_booking_query(Caller(tok), rname, ref)
             b == The(found)
             row == [b EXCEPT !.status = "cancelled",
                              !.cancellation_reason_id = {cancellationReasonId},
                              !.updated_at = clock]
         IN  IF found = {} THEN Response(404, NotFound, {}, bookings)
             ELSE IF ~\E r \in reasons : r.id = cancellationReasonId
                  THEN Response(400, "Invalid cancellation reason ID", {}, bookings)
             ELSE Response(200, "Booking has been successfully cancelled", {},
                           (bookings \ {b}) \cup {row})

\* (mutant) the handler without the reason lookup of lines 200-202
cancel_booking_response_any_reason(tok, rname, ref, cancellationReasonId) ==
    IF ~Authenticated(tok) THEN Unauthorized(tok)
    ELSE LET found == cancel_booking_query(Caller(tok), rname, ref)
             b == The(found)
             row == [b EXCEPT !.status = "cancelled",
                              !.cancellation_reason_id = {cancellationReasonId},
                              !.updated_at = clock]
         IN  IF found = {} THEN Response(404, NotFound, {}, bookings)
             ELSE IF b.status = "cancelled"
                  THEN Response(400, "Booking is already cancelled", {}, bookings)
             ELSE Response(200, "Booking has been successfully cancelled", {},
                           (bookings \ {b}) \cup {row})

cancel_booking_response(tok, rname, ref, cancellationReasonId) ==
    IF ~Authenticated(tok) THEN Unauthorized(tok)
    ELSE LET found == cancel_booking_query(Caller(tok), rname, ref)
             b == The(found)
             row == [b EXCEPT !.status = "cancelled",
                              !.cancellation_reason_id = {cancellationReasonId},
                              !.updated_at = clock]
         IN  IF found = {} THEN Response(404, NotFound, {}, bookings)
             ELSE IF b.status = "cancelled"
                  THEN Response(400, "Booking is already cancelled", {}, bookings)
             ELSE IF ~\E r \in reasons : r.id = cancellationReasonId
                  THEN Response(400, "Invalid cancellation reason ID", {}, bookings)
             ELSE Response(200, "Booking has been successfully cancelled", {},
                           (bookings \ {b}) \cup {row})

cancel_booking(tok, rname, ref, cancellationReasonId) ==
    /\ Commit(cancel_booking_response(tok, rname, ref, cancellationReasonId))
    /\ UNCHANGED <<seeded, offline, reviews, customers, reqs>>

----------------------------------------------------------------------------
(* update_booking_status *)

\* (mutant) the list with a status that is not of the enumeration
valid_statuses_open == StatusInputs

valid_statuses == {"confirmed", "pending", "cancelled", "completed", "no_show"}

\* lines 195-198: no restaurant in this query
update_booking_status_query(uid, ref) ==
    {b \in bookings : b.booking_reference = ref /\ b.user_id = uid}

\* the HTTPException raised for an invalid status or a missing booking is
\* raised inside the try block, whose except clause catches Exception: it
\* rolls back and answers 500
\* (mutant) the handler with a transition rule: a cancelled booking stays
\* cancelled
update_booking_status_response_final(tok, ref, new_status) ==
    IF ~Authenticated(tok) THEN Unauthorized(tok)
    ELSE LET found == update_booking_status_query(Caller(tok), ref)
             b == The(found)
             row == [b EXCEPT !.status = new_status, !.updated_at = clock]
         IN  IF new_status \notin valid_statuses \/ found = {} \/ b.status = "cancelled"
             THEN Response(500, "Failed to update booking status", {}, bookings)
             ELSE [Response(200, "Booking status updated", {row}, (bookings \ {b}) \cup {row})
                     EXCEPT !.old_status = {b.status}, !.new_status = {new_status}]

update_booking_status_response(tok, ref, new_status) ==
    IF ~Authenticated(tok) THEN Unauthorized(tok)
    ELSE LET found == update_booking_status_query(Caller(tok), ref)
             b == The(found)
             row == [b EXCEPT !.status = new_status, !.updated_at = clock]
         IN  IF new_status \notin valid_statuses \/ found = {}
             THEN Response(500, "Failed to update booking status", {}, bookings)
             ELSE [Response(200, "Booking status updated", {row}, (bookings \ {b}) \cup {row})
                     EXCEPT !.old_status = {b.status}, !.new_status = {new_status}]

update_booking_status(tok, ref, new_status) ==
    /\ Commit(update_booking_status_response(tok, ref, new_status))
    /\ UNCHANGED <<seeded, offline, reviews, customers, reqs>>

----------------------------------------------------------------------------
(* availability_search *)

Digit(n) == <<"0", "1", "2", "3", "4", "5", "6", "7", "8", "9">>[n + 1]

TwoDigits(n) == <<Digit((n \div 10) % 10), Digit(n % 10)>>

\* time.strftime("%H:%M:%S")
strftime(t) == TwoDigits(t.h) \o <<":">> \o TwoDigits(t.m) \o <<":">> \o TwoDigits(t.s)

\* (mutant) the party-size filter with > for >=
slots_query_strict(restaurant_id, VisitDate, PartySize) ==
    {sl \in slots :
        /\ sl.restaurant_id = restaurant_id
        /\ sl.date = VisitDate
        /\ sl.max_party_size > PartySize}

\* lines 63-67
slots_query(restaurant_id, VisitDate, PartySize) ==
    {sl \in slots :
        /\ sl.restaurant_id = restaurant_id
        /\ sl.date = VisitDate
        /\ sl.max_party_size >= PartySize}

\* (mutant) the count without the status filter
existing_bookings_any_status(restaurant_id, VisitDate, slot_time) ==
    Cardinality({b \in bookings :
        /\ b.restaurant_id = restaurant_id
        /\ b.visit_date = VisitDate
        /\ b.visit_time = slot_time})

\* lines 73-78
existing_bookings(restaurant_id, VisitDate, slot_time) ==
    Cardinality({b \in bookings :
        /\ b.restaurant_id = restaurant_id
        /\ b.visit_date = VisitDate
        /\ b.visit_time = slot_time
        /\ b.status = "confirmed"})

\* (mutant) the ceiling compared with <= for <
is_available_upto(sl, count) == sl.available /\ count <= max_bookings_per_slot

\* line 82
is_available(sl, count) == sl.available /\ count < max_bookings_per_slot

\* lines 84-89: one entry per slot row (slot names the row the entry is for)
slot_entry(sl, VisitDate) ==
    [slot |-> sl.id,
     time |-> strftime(sl.time),
     available |-> is_available(sl, existing_bookings(sl.restaurant_id, VisitDate, sl.time)),
     max_party_size |-> sl.max_party_size,
     current_bookings |-> existing_bookings(sl.restaurant_id, VisitDate, sl.time)]

availability_search_response(tok, rname, VisitDate, PartySize) ==
    IF ~Authenticated(tok) THEN Unauthorized(tok)
    ELSE IF restaurant_by_name(rname) = {} THEN Response(404, "Restaurant not found", {}, bookings)
    ELSE [Response(200, "", {}, bookings) EXCEPT
            !.available_slots =
                {slot_entry(sl, VisitDate) :
                    sl \in slots_query(The(restaurant_by_name(rname)).id, VisitDate, PartySize)}]

availability_search(tok, rname, VisitDate, PartySize) ==
    /\ Commit(availability_search_response(tok, rname, VisitDate, PartySize))
    /\ UNCHANGED <<seeded, offline, reviews, customers, reqs>>

----------------------------------------------------------------------------
(* get_user_bookings, get_booking_history *)

\* every order of a set of rows
Orders(rows) ==
    {f \in [1..Cardinality(rows) -> rows] : \A i, j \in 1..Cardinality(rows) : i # j => f[i] # f[j]}

\* (mutant) the query without the user filter
get_user_bookings_query_all(uid) ==
    {b \in bookings :
        /\ \E r \in restaurants : r.id = b.restaurant_id
        /\ \E c \in customers : c.id = b.customer_id}

\* lines 152-154: the user's bookings joined to their restaurant and customer
get_user_bookings_query(uid) ==
    {b \in bookings :
        /\ b.user_id = uid
        /\ \E r \in restaurants : r.id = b.restaurant_id
        /\ \E c \in customers : c.id = b.customer_id}

\* the answers the handler can give: the rows in any order
get_user_bookings_responses(tok) ==
    IF ~Authenticated(tok) THEN {Unauthorized(tok)}
    ELSE {[Response(200, "", {}, bookings) EXCEPT !.listed = f] :
            f \in Orders(get_user_bookings_query(Caller(tok)))}

get_user_bookings(tok) ==
    /\ \E r \in get_user_bookings_responses(tok) : Commit(r)
    /\ UNCHANGED <<seeded, offline, reviews, customers, reqs>>

upper == <<"A", "B", "C", "D", "E", "F", "G", "H", "I", "J", "K", "L", "M",
           "N", "O", "P", "Q", "R", "S", "T", "U", "V", "W", "X", "Y", "Z">>

lower == <<"a", "b", "c", "d", "e", "f", "g", "h", "i", "j", "k", "l", "m",
           "n", "o", "p", "q", "r", "s", "t", "u", "v", "w", "x", "y", "z">>

Lower(c) == IF \E i \in 1..26 : upper[i] = c THEN lower[CHOOSE i \in 1..26 : upper[i] = c] ELSE c

\* the characters of the texts the tables hold
Chars(text) ==
    CASE text = "TheHungryUnicorn" ->
           <<"T", "h", "e", "H", "u", "n", "g", "r", "y", "U", "n", "i", "c", "o", "r", "n">>
      [] text = "Sakura Sushi Bar" ->
           <<"S", "a", "k", "u", "r", "a", " ", "S", "u", "s", "h", "i", " ", "B", "a", "r">>
      [] text = "User1" -> <<"U", "s", "e", "r", "1">>
      [] text = "User2" -> <<"U", "s", "e", "r", "2">>
      [] text = "Test" -> <<"T", "e", "s", "t">>

\* column ILIKE '%term%' on character sequences
ilike(chars, term) ==
    \E k \in 0..(Len(chars) - Len(term)) :
        \A i \in 1..Len(term) : Lower(chars[k + i]) = Lower(term[i])

time_lt(a, b) ==
    \/ a.h < b.h
    \/ a.h = b.h /\ a.m < b.m
    \/ a.h = b.h /\ a.m = b.m /\ a.s < b.s

\* string order of the restaurant names and of the statuses in the tables
NameRank(name) == IF name = "Sakura Sushi Bar" THEN 1 ELSE 2

StatusRank(st) ==
    CASE st = "cancelled" -> 1 [] st = "completed" -> 2 [] st = "confirmed" -> 3
      [] st = "no_show" -> 4 [] st = "pending" -> 5

restaurant_of(b) == The({r \in restaurants : r.id = b.restaurant_id})

customer_of(b) == The({c \in customers : c.id = b.customer_id})

\* lines 69-76: a comes strictly before b in the ORDER BY
history_before(a, b, sort_by) ==
    IF sort_by = "date_asc"
    THEN a.visit_date < b.visit_date \/ (a.visit_date = b.visit_date /\ time_lt(a.visit_time, b.visit_time))
    ELSE IF sort_by = "restaurant"
    THEN NameRank(restaurant_of(a).name) < NameRank(restaurant_of(b).name)
    ELSE IF sort_by = "status"
    THEN StatusRank(a.status) < StatusRank(b.status)
    ELSE a.visit_date > b.visit_date \/ (a.visit_date = b.visit_date /\ time_lt(b.visit_time, a.visit_time))

\* lines 38-66: the base query and the optional filters
get_booking_history_query(uid, q) ==
    {b \in bookings :
        /\ b.user_id = uid
        /\ \E r \in restaurants : r.id = b.restaurant_id
        /\ \E c \in customers : c.id = b.customer_id
        /\ q.search # {} =>
              \E term \in q.search :
                  \/ ilike(b.booking_reference, term)
                  \/ ilike(Chars(restaurant_of(b).name), term)
                  \/ ilike(Chars(customer_of(b).first_name), term)
                  \/ ilike(Chars(customer_of(b).surname), term)
        /\ q.status # {} => b.status \in q.status
        /\ q.restaurant_name # {} =>
              \E term \in q.restaurant_name : ilike(Chars(restaurant_of(b).name), term)
        /\ q.date_from # {} => \E d \in q.date_from : b.visit_date >= d
        /\ q.date_to # {} => \E d \in q.date_to : b.visit_date <= d}

\* line 82: OFFSET and LIMIT on the ordered rows
page(f, offset, limit) ==
    SubSeq(f, offset + 1, IF offset + limit < Len(f) THEN offset + limit ELSE Len(f))

\* the answers the handler can give: rows that tie in the ORDER BY come in any order
get_booking_history_responses(tok, q) ==
    IF ~Authenticated(tok) THEN {Unauthorized(tok)}
    ELSE {[Response(200, "", {}, bookings) EXCEPT !.listed = page(f, q.offset, q.limit)] :
            f \in {g \in Orders(get_booking_history_query(Caller(tok), q)) :
                     \A i, j \in 1..Len(g) : i < j => ~history_before(g[j], g[i], q.sort_by)}}

get_booking_history(tok, q) ==
    /\ \E r \in get_booking_history_responses(tok, q) : Commit(r)
    /\ UNCHANGED <<seeded, offline, reviews, customers, reqs>>

----------------------------------------------------------------------------
(* register_user, login_for_access_token, refresh_access_token,
   delete_user_account *)

Email3 == "user3@example.com"

UserRegister(username, email, password) ==
    [username |-> username, email |-> email, password |-> password,
     first_name |-> "New", last_name |-> "User"]

\* registrations a client can send: a new user, the same username under
\* another email, an existing username under a new email, an existing email
RegisterForms ==
    {UserRegister("user3", Email3, "secret3"),
     UserRegister("user3", "other3@example.com", "secret3"),
     UserRegister("user1", "new1@example.com", "secret3"),
     UserRegister("newname", Email2, "secret3")}

Passwords == {"secret1", "secret2", "secret3", "wrong"}

Emails == {Email1, Email2, Email3, "ghost@example.com"}

\* the tokens of the booking handlers, and a registered user's token
AccountTokens == Tokens \cup {Token(Email3, TRUE)}

\* an answer of the account handlers: status, detail, the tokens issued and
\* the users table the handler leaves committed
AccountResponse(status, detail, access, refresh, table) ==
    [status |-> status, detail |-> detail, access_token |-> access, refresh_token |-> refresh,
     users |-> table]

\* the token kinds differ in lifetime only; decode_token reads both alike
create_access_token(sub) == Token(sub, TRUE)

create_refresh_token(sub) == Token(sub, TRUE)

\* line 43
register_user_query(user_data) == {u \in users : u.email = user_data.email}

\* (mutant) username declared without unique=True
users_unique_email_only(row) == \A u \in users : u.email # row.email

\* the unique constraints on users.username and users.email
users_unique(row) == \A u \in users : u.username # row.username /\ u.email # row.email

NewUser(user_data) ==
    [id |-> NextId(users), username |-> user_data.username, email |-> user_data.email,
     password_hash |-> get_password_hash(user_data.password),
     first_name |-> user_data.first_name, last_name |-> user_data.last_name, is_active |-> TRUE]

\* lines 49-75: insert and commit; a row that breaks a unique constraint
\* raises IntegrityError, which the handler does not catch
register_user_insert_response(user_data) ==
    IF users_unique(NewUser(user_data))
    THEN AccountResponse(200, "", {create_access_token(user_data.email)},
                         {create_refresh_token(user_data.email)}, users \cup {NewUser(user_data)})
    ELSE AccountResponse(500, "Internal Server Error", {}, {}, users)

\* the handler run with no other request in between
register_user_response(user_data) ==
    IF register_user_query(user_data) # {}
    THEN AccountResponse(400, "Email already registered", {}, {}, users)
    ELSE register_user_insert_response(user_data)

\* lines 43-48: the email query
register_user_begin(p, user_data) ==
    /\ reqs[p].pc = "idle"
    /\ \A q \in Procs : q < p => reqs[q].pc # "idle"
    /\ IF register_user_query(user_data) # {}
       THEN UNCHANGED reqs
       ELSE reqs' = [reqs EXCEPT ![p] = [Idle EXCEPT !.pc = "register_insert", !.form = user_data]]
    /\ UNCHANGED <<seeded, offline, reviews, customers, bookings, clock>>

register_user_insert(p) ==
    /\ reqs[p].pc = "register_insert"
    /\ users' = register_user_insert_response(reqs[p].form).users
    /\ reqs' = [reqs EXCEPT ![p] = Idle]
    /\ UNCHANGED <<offline, reviews, restaurants, slots, reasons, customers, bookings, clock>>

login_for_access_token_response(username, password) ==
    LET found == {u \in users : u.email = username}
    IN  IF found = {} \/ \E u \in found : ~verify_password(password, u.password_hash)
        THEN AccountResponse(401, "Incorrect username or password", {}, {}, users)
        ELSE IF \E u \in found : ~u.is_active
             THEN AccountResponse(401, "Account has been deactivated", {}, {}, users)
        ELSE AccountResponse(200, "", {create_access_token(The(found).email)},
                             {create_refresh_token(The(found).email)}, users)

login_for_access_token(username, password) ==
    /\ users' = login_for_access_token_response(username, password).users
    /\ UNCHANGED <<offline, reviews, restaurants, slots, reasons, customers, bookings, reqs, clock>>

\* no user is looked up: any token that decodes is refreshed
refresh_access_token_response(tok) ==
    IF decode_token(tok) = {}
    THEN AccountResponse(401, "Invalid refresh token", {}, {}, users)
    ELSE AccountResponse(200, "", {create_access_token(The(decode_token(tok)).sub)}, {}, users)

refresh_access_token(tok) ==
    /\ users' = refresh_access_token_response(tok).users
    /\ UNCHANGED <<offline, reviews, restaurants, slots, reasons, customers, bookings, reqs, clock>>

delete_user_account_response(tok) ==
    IF ~Authenticated(tok)
    THEN AccountResponse(401, get_current_user(tok).detail, {}, {}, users)
    ELSE LET u == The(get_current_user(tok).user)
         IN  AccountResponse(200, "Account deleted successfully", {}, {},
                             (users \ {u}) \cup {[u EXCEPT !.is_active = FALSE]})

delete_user_account(tok) ==
    /\ users' = delete_user_account_response(tok).users
    /\ UNCHANGED <<offline, reviews, restaurants, slots, reasons, customers, bookings, reqs, clock>>

----------------------------------------------------------------------------
(* Reviews: create_review *)

\* the attributes the mapped classes declare: columns and relationships
Booking_attributes ==
    {"id", "booking_reference", "restaurant_id", "customer_id", "user_id", "visit_date",
     "visit_time", "party_size", "channel_code", "special_requests", "is_leave_time_confirmed",
     "room_number", "status", "cancellation_reason_id", "created_at", "updated_at",
     "restaurant", "customer", "user", "review"}

User_attributes ==
    {"id", "username", "email", "password_hash", "first_name", "last_name", "phone",
     "date_of_birth", "accessibility_needs", "created_at", "updated_at", "is_active",
     "bookings", "preferences", "customer", "reviews"}

RestaurantReview_attributes ==
    {"id", "restaurant_id", "user_id", "booking_id", "rating", "title", "review_text",
     "food_rating", "service_rating", "ambiance_rating", "value_rating", "is_verified",
     "is_published", "created_at", "updated_at", "restaurant", "user", "booking"}

\* datetime.now() as the handler may read it: before and after every visit
Nows == {[date |-> 0, time |-> Time(12, 0)], [date |-> 3, time |-> Time(12, 0)]}

Ratings == {0, 1, 5, 6}

ReviewCreate == [booking_reference : RefInputs, rating : Ratings]

ReviewAnswer(status, detail, table) == [status |-> status, detail |-> detail, reviews |-> table]

\* datetime.combine(visit_date, visit_time) > datetime.now()
datetime_gt(d, t, now) == d > now.date \/ (d = now.date /\ time_lt(now.time, t))

\* lines 128-145: the row the handler builds and commits
NewReview(uid, rid, review_data) ==
    [id |-> NextId(reviews), user_id |-> uid, restaurant_id |-> rid,
     booking_reference |-> review_data.booking_reference, rating |-> review_data.rating]

\* except Exception (lines 153-159): roll back and answer 500
create_review_failed == ReviewAnswer(500, "Failed to create review", reviews)

\* lines 82-145, once the booking is found: each attribute the handler reads
\* must be declared by the class it is read from, else AttributeError (and
\* TypeError for an undeclared keyword of the constructor) is raised and
\* caught by except Exception
create_review_found(uid, booking, review_data, now) ==
    IF ~({"customer_name"} \subseteq Booking_attributes /\ {"full_name"} \subseteq User_attributes)
    THEN create_review_failed
    ELSE IF booking.customer_name # The({u \in users : u.id = uid}).full_name
    THEN ReviewAnswer(403, "You can only review your own bookings", reviews)
    ELSE IF datetime_gt(booking.visit_date, booking.visit_time, now)
    THEN ReviewAnswer(400, "You can only review completed bookings", reviews)
    ELSE IF ~({"booking_reference"} \subseteq RestaurantReview_attributes)
    THEN create_review_failed
    ELSE IF \E rv \in reviews :
                rv.booking_reference = review_data.booking_reference /\ rv.user_id = uid
    THEN ReviewAnswer(400, "You have already reviewed this booking", reviews)
    ELSE IF ~({"restaurant_name"} \subseteq Booking_attributes)
    THEN create_review_failed
    ELSE IF restaurant_by_name(booking.restaurant_name) = {}
    THEN ReviewAnswer(404, "Restaurant not found", reviews)
    ELSE IF ~(1 <= review_data.rating /\ review_data.rating <= 5)
    THEN ReviewAnswer(400, "Rating must be between 1 and 5", reviews)
    ELSE LET review == NewReview(uid, The(restaurant_by_name(booking.restaurant_name)).id, review_data)
         IN  ReviewAnswer(200, "Review created successfully", reviews \cup {review})

\* lines 62-159
create_review_response(tok, review_data, now) ==
    IF ~Authenticated(tok) THEN ReviewAnswer(401, Unauthorized(tok).detail, reviews)
    ELSE LET booking == {b \in bookings : b.booking_reference = review_data.booking_reference}
         IN  IF booking = {}
             THEN ReviewAnswer(404, "Booking not found", reviews)
             ELSE create_review_found(Caller(tok), The(booking), review_data, now)

create_review(tok, review_data, now) ==
    /\ InFlight = {}
    /\ reviews' = create_review_response(tok, review_data, now).reviews
    /\ UNCHANGED <<seeded, offline, customers, bookings, reqs, clock>>

----------------------------------------------------------------------------
(* Start-up: lifespan and init_sample_data *)

\* the restaurants of restaurants_data that the model keeps, in list order,
\* with the ids the table assigns when the whole list is inserted
restaurants_data ==
    <<The({r \in SeedRestaurants : r.name = "TheHungryUnicorn"}),
      The({r \in SeedRestaurants : r.name = "Sakura Sushi Bar"})>>

\* the times of the day the model keeps from the lists of lines 157-162
sample_times(restaurant) ==
    IF restaurant.cuisine_type = "Japanese" THEN {Time(18, 0), Time(19, 0)} ELSE {Time(19, 0)}

\* one slot per created restaurant, day and time of the day (lines 156-179)
slot_keys(created) ==
    UNION {{<<created[i], d, t>> : d \in Dates, t \in sample_times(created[i])} : i \in DOMAIN created}

\* the order in which the loops of lines 156-179 add the slots
slot_before(a, b) ==
    \/ a[1].id < b[1].id
    \/ a[1].id = b[1].id /\ a[2] < b[2]
    \/ a[1].id = b[1].id /\ a[2] = b[2] /\ time_lt(a[3], b[3])

\* flags[k] is the outcome of random.random() > 0.15 for slot k
new_slots(created, flags) ==
    {Slot(1 + Cardinality({j \in slot_keys(created) : slot_before(j, k)}),
          k[1].id, k[2], k[3], k[1].max_party_size, flags[k]) : k \in slot_keys(created)}

cancellation_reasons == SeedReasons

Boot(pc, created, outcome) == [pc |-> pc, created |-> created, outcome |-> outcome]

\* lines 43-49: the run skips when a restaurant is stored
init_sample_data_begin ==
    /\ boot.pc = "down"
    /\ boot' = IF restaurants # {} THEN Boot("up", <<>>, "skipped")
                                  ELSE Boot("seeding", <<>>, "none")
    /\ UNCHANGED <<seeded, customers, bookings, reqs, clock, reviews, migrator, postgres>>

\* lines 145-152: each restaurant is committed on its own
init_sample_data_add_restaurant ==
    /\ boot.pc = "seeding"
    /\ Len(boot.created) < Len(restaurants_data)
    /\ LET restaurant == restaurants_data[Len(boot.created) + 1]
       IN  /\ restaurants' = restaurants \cup {restaurant}
           /\ boot' = [boot EXCEPT !.created = Append(@, restaurant)]
    /\ UNCHANGED <<users, slots, reasons, customers, bookings, reqs, clock, reviews, migrator, postgres>>

\* lines 155-207: the slots and the cancellation reasons are committed together
init_sample_data_finish ==
    /\ boot.pc = "seeding"
    /\ Len(boot.created) = Len(restaurants_data)
    /\ \E flags \in [slot_keys(boot.created) -> BOOLEAN] :
          slots' = slots \cup new_slots(boot.created, flags)
    /\ reasons' = reasons \cup cancellation_reasons
    /\ boot' = Boot("up", <<>>, "seeded")
    /\ UNCHANGED <<users, restaurants, customers, bookings, reqs, clock, reviews, migrator, postgres>>

\* lines 209-213: a statement raises; the rollback drops what the session has
\* not committed, the exception is swallowed and the application starts
init_sample_data_fail ==
    /\ boot.pc = "seeding"
    /\ boot' = Boot("up", <<>>, "failed")
    /\ UNCHANGED <<seeded, customers, bookings, reqs, clock, reviews, migrator, postgres>>

\* the application stops and is started again
lifespan ==
    /\ boot.pc = "up"
    /\ boot' = Boot("down", <<>>, boot.outcome)
    /\ UNCHANGED <<seeded, customers, bookings, reqs, clock, reviews, migrator, postgres>>

----------------------------------------------------------------------------
(* The migration script: DatabaseMigrator *)

\* the tables of Base.metadata
TableNames ==
    {"users", "user_preferences", "restaurants", "customers", "bookings",
     "availability_slots", "cancellation_reasons", "restaurant_reviews"}

\* the rows of a table of the source database; the model holds no preferences
sqlite(table_name) ==
    CASE table_name = "users" -> users
      [] table_name = "restaurants" -> restaurants
      [] table_name = "customers" -> customers
      [] table_name = "bookings" -> bookings
      [] table_name = "availability_slots" -> slots
      [] table_name = "cancellation_reasons" -> reasons
      [] table_name = "restaurant_reviews" -> reviews
      [] OTHER -> {}

\* the foreign keys of the models: the tables each table references
references(table_name) ==
    CASE table_name = "user_preferences" -> {"users"}
      [] table_name = "customers" -> {"users"}
      [] table_name = "bookings" -> {"restaurants", "customers", "users"}
      [] table_name = "availability_slots" -> {"restaurants"}
      [] table_name = "restaurant_reviews" -> {"restaurants", "users", "bookings"}
      [] OTHER -> {}

migration_order ==
    <<"users", "restaurants", "cancellation_reasons", "customers", "bookings", "restaurant_reviews">>

existing_tables == TableNames

InTables(table_name) == table_name \in existing_tables

tables_to_migrate == SelectSeq(migration_order, InTables)

get_table_data(table_name) == sqlite(table_name)

insert_table_data(target, table_name, data) == [target EXCEPT ![table_name] = @ \cup data]

Migrator(pc, todo, inserted, mismatch) ==
    [pc |-> pc, todo |-> todo, inserted |-> inserted, mismatch |-> mismatch]

\* drop_all, then create_all: every table of the metadata, empty
create_postgres_tables ==
    /\ migrator.pc = "idle"
    /\ postgres' = [t \in TableNames |-> {}]
    /\ migrator' = Migrator("migrate", tables_to_migrate, <<>>, {})
    /\ UNCHANGED <<seeded, customers, bookings, reqs, clock, reviews, boot>>

\* one turn of the loop of migrate_data: read the table, insert its rows
migrate_table ==
    /\ migrator.pc = "migrate"
    /\ migrator.todo # <<>>
    /\ LET table_name == Head(migrator.todo)
       IN  /\ postgres' = insert_table_data(postgres, table_name, get_table_data(table_name))
           /\ migrator' = [migrator EXCEPT !.todo = Tail(@), !.inserted = Append(@, table_name)]
    /\ UNCHANGED <<seeded, customers, bookings, reqs, clock, reviews, boot>>

\* the loop is over: update_sequences, and migrate_data returns without error
migrate_data_return ==
    /\ migrator.pc = "migrate"
    /\ migrator.todo = <<>>
    /\ migrator' = [migrator EXCEPT !.pc = "migrated"]
    /\ UNCHANGED <<seeded, customers, bookings, reqs, clock, reviews, boot, postgres>>

\* the row counts are compared and a mismatch is logged, never raised
verify_migration ==
    /\ migrator.pc = "migrated"
    /\ migrator' = [migrator EXCEPT
                      !.pc = "verified",
                      !.mismatch = {t \in TableNames \cap DOMAIN postgres :
                                       Cardinality(sqlite(t)) # Cardinality(postgres[t])}]
    /\ UNCHANGED <<seeded, customers, bookings, reqs, clock, reviews, boot, postgres>>

----------------------------------------------------------------------------
(* The specification *)

Init ==
    /\ users = SeedUsers
    /\ restaurants = SeedRestaurants
    /\ slots = SeedSlots
    /\ reasons = SeedReasons
    /\ \/ customers = {} /\ bookings = {}
       \/ customers = StoredCustomers /\ bookings = StoredBookings
    /\ reqs = [p \in Procs |-> Idle]
    /\ clock = 0
    /\ reviews = {}
    /\ boot = Boot("up", <<>>, "skipped")
    /\ migrator = Migrator("idle", <<>>, <<>>, {})
    /\ postgres = <<>>

Next ==
    \/ \E p \in Procs, tok \in Tokens, rname \in RestaurantNames, form \in CreateForms :
          create_booking_begin(p, tok, rname, form)
    \/ \E p \in Procs : create_booking_add_customer(p)
    \/ \E p \in Procs : create_booking_gen_ref(p)
    \/ \E p \in Procs : create_booking_insert(p)
    \/ \E tok \in Tokens, rname \in RestaurantNames, ref \in RefInputs : get_booking(tok, rname, ref)
    \/ \E tok \in Tokens, rname \in RestaurantNames, ref \in RefInputs, form \in UpdateForms :
          update_booking(tok, rname, ref, form)
    \/ \E tok \in Tokens, rname \in RestaurantNames, ref \in RefInputs, id \in ReasonIds :
          cancel_booking(tok, rname, ref, id)
    \/ \E tok \in Tokens, ref \in RefInputs, st \in StatusInputs : update_booking_status(tok, ref, st)
    \/ \E tok \in Tokens, rname \in RestaurantNames, d \in Dates, n \in PartySizes :
          availability_search(tok, rname, d, n)
    \/ \E tok \in Tokens : get_user_bookings(tok)
    \/ \E tok \in Tokens, q \in HistoryQueries : get_booking_history(tok, q)

Spec == Init /\ [][Next]_vars

\* the account handlers, with the booking handlers a deactivated user would call
AccountNext ==
    \/ \E p \in Procs, user_data \in RegisterForms : register_user_begin(p, user_data)
    \/ \E p \in Procs : register_user_insert(p)
    \/ \E username \in Emails, password \in Passwords : login_for_access_token(username, password)
    \/ \E tok \in AccountTokens : refresh_access_token(tok)
    \/ \E tok \in AccountTokens : delete_user_account(tok)
    \/ \E tok \in AccountTokens, rname \in KnownNames, ref \in RefInputs : get_booking(tok, rname, ref)
    \/ \E tok \in AccountTokens, rname \in KnownNames, ref \in RefInputs, id \in ReasonIds :
          cancel_booking(tok, rname, ref, id)
    \/ \E tok \in AccountTokens : get_user_bookings(tok)

AccountSpec == Init /\ [][AccountNext]_vars

\* the handlers that change a stored booking, and create_review
ReviewNext ==
    \/ \E tok \in Tokens, review_data \in ReviewCreate, now \in Nows : create_review(tok, review_data, now)
    \/ \E tok \in Tokens, rname \in KnownNames, ref \in RefInputs, form \in UpdateForms :
          update_booking(tok, rname, ref, form)
    \/ \E tok \in Tokens, rname \in KnownNames, ref \in RefInputs, id \in ReasonIds :
          cancel_booking(tok, rname, ref, id)
    \/ \E tok \in Tokens, ref \in RefInputs, st \in StatusInputs : update_booking_status(tok, ref, st)

ReviewSpec == Init /\ [][ReviewNext]_vars

\* the first start of the application: empty tables
SeedInit ==
    /\ users = {}
    /\ restaurants = {}
    /\ slots = {}
    /\ reasons = {}
    /\ customers = {}
    /\ bookings = {}
    /\ reqs = [p \in Procs |-> Idle]
    /\ clock = 0
    /\ reviews = {}
    /\ boot = Boot("down", <<>>, "none")
    /\ migrator = Migrator("idle", <<>>, <<>>, {})
    /\ postgres = <<>>

SeedNext ==
    \/ init_sample_data_begin
    \/ init_sample_data_add_restaurant
    \/ init_sample_data_finish
    \/ init_sample_data_fail
    \/ lifespan

SeedSpec == SeedInit /\ [][SeedNext]_vars

\* the script is run on a database at rest: the handlers act before it starts
MigrateNext ==
    \/ /\ migrator.pc = "idle"
       /\ \/ \E tok \in Tokens, rname \in KnownNames, ref \in RefInputs, form \in UpdateForms :
                update_booking(tok, rname, ref, form)
          \/ \E tok \in Tokens, rname \in KnownNames, ref \in RefInputs, id \in ReasonIds :
                cancel_booking(tok, rname, ref, id)
          \/ \E tok \in Tokens, ref \in RefInputs, st \in StatusInputs :
                update_booking_status(tok, ref, st)
    \/ create_postgres_tables
    \/ migrate_table
    \/ migrate_data_return
    \/ verify_migration

MigrateSpec == Init /\ [][MigrateNext]_vars

\* register (of a new user), login, create_booking and get_booking
RoundTripNext ==
    \/ \E p \in Procs, user_data \in {f \in RegisterForms : f.email = Email3} :
          register_user_begin(p, user_data)
    \/ \E p \in Procs : register_user_insert(p)
    \/ \E username \in Emails, password \in Passwords : login_for_access_token(username, password)
    \/ \E p \in Procs, tok \in AccountTokens, rname \in KnownNames, form \in CreateForms :
          create_booking_begin(p, tok, rname, form)
    \/ \E p \in Procs : create_booking_add_customer(p)
    \/ \E p \in Procs : create_booking_gen_ref(p)
    \/ \E p \in Procs : create_booking_insert(p)
    \/ \E tok \in AccountTokens, rname \in KnownNames, ref \in RefInputs : get_booking(tok, rname, ref)

RoundTripSpec == Init /\ [][RoundTripNext]_vars

\* a database in which all the enumerated references but one are stored
LoopInit ==
    /\ users = SeedUsers
    /\ restaurants = SeedRestaurants
    /\ slots = SeedSlots
    /\ reasons = SeedReasons
    /\ customers = StoredCustomers
    /\ bookings = StoredBookings \cup {StoredBooking(NextId(StoredBookings), Draw(Len(RefDraws), RefLen), 0)}
    /\ reqs = [p \in Procs |-> Idle]
    /\ clock = 0
    /\ reviews = {}
    /\ boot = Boot("up", <<>>, "skipped")
    /\ migrator = Migrator("idle", <<>>, <<>>, {})
    /\ postgres = <<>>

LoopNext ==
    \/ \E p \in Procs, tok \in Tokens, rname \in RestaurantNames, form \in CreateForms :
          create_booking_begin(p, tok, rname, form)
    \/ \E p \in Procs : create_booking_add_customer(p)
    \/ \E p \in Procs : create_booking_gen_ref(p)
    \/ \E p \in Procs : create_booking_insert(p)

LoopSpec == LoopInit /\ [][LoopNext]_vars

----------------------------------------------------------------------------
(* Properties *)

Owner(tok, b) == Authenticated(tok) /\ b.user_id = Caller(tok)

Stranger(tok, b) == Authenticated(tok) /\ b.user_id # Caller(tok)

\* a refusal that shows nothing of the table and writes nothing
Refused(r, status) == r.status = status /\ r.booking = {} /\ r.bookings = bookings

\* C1: get_booking, update_booking and cancel_booking called with the
\* reference of a booking the caller does not own answer 404, return no
\* booking row and leave the bookings table as it is; so a call succeeds only
\* for the booking's owner.
C1_OwnerOnly ==
    \A tok \in Tokens, rname \in RestaurantNames, b \in bookings :
        Stranger(tok, b) =>
            /\ Refused(get_booking_response(tok, rname, b.booking_reference), 404)
            /\ \A form \in UpdateForms :
                  Refused(update_booking_response(tok, rname, b.booking_reference, form), 404)
            /\ \A id \in ReasonIds :
                  Refused(cancel_booking_response(tok, rname, b.booking_reference, id), 404)

\* a confirmed booking, a call on it by another user under the booking's own
\* restaurant, and the 404 that call gets
C1_Witness ==
    \E tok \in Tokens, b \in bookings :
        /\ Stranger(tok, b)
        /\ b.status = "confirmed"
        /\ b.updated_at >= 0
        /\ cancel_booking_response(tok, restaurant_of(b).name, b.booking_reference, 2).status = 404
        /\ \E own \in bookings : Owner(tok, own)

\* what the caller sees of an answer
Observable(r) == <<r.status, r.detail, r.booking, r.available_slots, r.listed>>

\* a reference no booking ever has
NoSuchRef == <<"N", "O", "S", "U", "C", "H", "1">>

\* C2: for get_booking, update_booking and cancel_booking the answer to a
\* request that names another user's booking is the answer to the same request
\* naming a reference that no booking has: 404 with the same detail and no row.
C2_ForeignLooksAbsent ==
    \A tok \in Tokens, rname \in RestaurantNames, b \in bookings :
        Stranger(tok, b) =>
            /\ Observable(get_booking_response(tok, rname, b.booking_reference))
                  = Observable(get_booking_response(tok, rname, NoSuchRef))
            /\ get_booking_response(tok, rname, NoSuchRef).status = 404
            /\ \A form \in UpdateForms :
                  /\ Observable(update_booking_response(tok, rname, b.booking_reference, form))
                        = Observable(update_booking_response(tok, rname, NoSuchRef, form))
                  /\ update_booking_response(tok, rname, NoSuchRef, form).status = 404
            /\ \A id \in ReasonIds :
                  /\ Observable(cancel_booking_response(tok, rname, b.booking_reference, id))
                        = Observable(cancel_booking_response(tok, rname, NoSuchRef, id))
                  /\ cancel_booking_response(tok, rname, NoSuchRef, id).status = 404

\* a user who reads an own booking and gets the not-found detail for another
\* user's booking at the same restaurant
C2_Witness ==
    \E tok \in Tokens, b \in bookings, own \in bookings :
        /\ Stranger(tok, b)
        /\ Owner(tok, own)
        /\ own.restaurant_id = b.restaurant_id
        /\ get_booking_response(tok, restaurant_of(own).name, own.booking_reference).status = 200
        /\ get_booking_response(tok, restaurant_of(b).name, b.booking_reference).detail = NotFound

ListingResponses(tok) ==
    get_user_bookings_responses(tok) \cup
        UNION {get_booking_history_responses(tok, q) : q \in HistoryQueries}

Listed(r) == {r.listed[i] : i \in 1..Len(r.listed)}

\* C3: every booking that get_user_bookings or get_booking_history lists for
\* a user has that user's id, and the references listed for two distinct users
\* are disjoint.
C3_ListingsIsolated ==
    \A tok1 \in Tokens, tok2 \in Tokens :
        (Authenticated(tok1) /\ Authenticated(tok2) /\ Caller(tok1) # Caller(tok2)) =>
            \A r1 \in ListingResponses(tok1), r2 \in ListingResponses(tok2) :
                /\ r1.status = 200
                /\ \A b \in Listed(r1) : b.user_id = Caller(tok1)
                /\ {b.booking_reference : b \in Listed(r1)} \cap
                      {b.booking_reference : b \in Listed(r2)} = {}

\* both users are listed bookings of their own
C3_Witness ==
    \E tok1 \in Tokens, tok2 \in Tokens :
        /\ Authenticated(tok1) /\ Authenticated(tok2) /\ Caller(tok1) # Caller(tok2)
        /\ \E r1 \in get_user_bookings_responses(tok1), r2 \in get_user_bookings_responses(tok2) :
              Listed(r1) # {} /\ Listed(r2) # {}
        /\ \E q \in HistoryQueries : \E r \in get_booking_history_responses(tok1, q) :
              Listed(r) # {} /\ Len(r.listed) < Cardinality(get_user_bookings_query(Caller(tok1)))

\* C4: no two stored bookings have the same booking_reference, and an insert
\* whose reference is already stored is rejected and stores nothing.
C4_UniqueReferences ==
    /\ \A b1 \in bookings, b2 \in bookings : b1.booking_reference = b2.booking_reference => b1 = b2
    /\ \A p \in Procs :
          (reqs[p].pc = "insert" /\ reference_taken(reqs[p].ref)) =>
              /\ create_booking_insert_response(p).status = 500
              /\ create_booking_insert_response(p).bookings = bookings

\* a request whose reference passed the uniqueness query and was then stored
\* by a concurrent request, at its insert
C4_Witness ==
    \E p \in Procs :
        /\ reqs[p].pc = "insert"
        /\ reqs[p].ref \notin reqs[p].refs0
        /\ reference_taken(reqs[p].ref)

\* C5: cancel_booking by the owner on an already cancelled booking answers
\* 400 and writes nothing (status, cancellation_reason_id and updated_at stay),
\* whatever reason id is supplied.
C5_CancelTwiceRefused ==
    \A tok \in Tokens, b \in bookings, id \in ReasonIds :
        (Owner(tok, b) /\ b.status = "cancelled") =>
            LET r == cancel_booking_response(tok, restaurant_of(b).name, b.booking_reference, id)
            IN  /\ r.status = 400
                /\ r.bookings = bookings

\* a booking cancelled by cancel_booking with a reason, and the 400 a second
\* cancel with a different, valid reason gets
C5_Witness ==
    \E tok \in Tokens, b \in bookings :
        /\ Owner(tok, b)
        /\ b.status = "cancelled"
        /\ b.cancellation_reason_id = {2}
        /\ cancel_booking_response(tok, restaurant_of(b).name, b.booking_reference, 2).status = 400
        /\ cancel_booking_response(tok, restaurant_of(b).name, b.booking_reference, 9).detail
              = "Booking is already cancelled"

SearchInputs == Tokens \X RestaurantNames \X Dates \X PartySizes

Search(i) == availability_search_response(i[1], i[2], i[3], i[4])

SlotRow(e) == The({sl \in slots : sl.id = e.slot})

\* the confirmed bookings of a restaurant at a date and time
Confirmed(rid, d, t) ==
    {b \in bookings :
        b.status = "confirmed" /\ b.restaurant_id = rid /\ b.visit_date = d /\ b.visit_time = t}

\* C6: every slot entry of an availability search has current_bookings equal
\* to the number of confirmed bookings of that restaurant at the searched date
\* and the slot's time, and has available true exactly when the slot's own
\* flag is set and current_bookings is below 3.
C6_CountAndFlag ==
    \A i \in SearchInputs :
        Search(i).status = 200 =>
            \A e \in Search(i).available_slots :
                /\ SlotRow(e).date = i[3]
                /\ e.time = strftime(SlotRow(e).time)
                /\ e.current_bookings
                      = Cardinality(Confirmed(SlotRow(e).restaurant_id, i[3], SlotRow(e).time))
                /\ e.available = (SlotRow(e).available /\ e.current_bookings < 3)

\* a slot with one confirmed booking counted while a cancelled booking at the
\* same restaurant, date and time, and a confirmed one at another time, are not
C6_Witness ==
    \E i \in SearchInputs : \E e \in Search(i).available_slots :
        /\ e.current_bookings = 1
        /\ e.available
        /\ \E b \in bookings :
              /\ b.status = "cancelled"
              /\ b.restaurant_id = SlotRow(e).restaurant_id
              /\ b.visit_date = i[3]
              /\ b.visit_time = SlotRow(e).time

\* C7: a search for a known restaurant answers exactly the stored slots of
\* that restaurant on that date whose max_party_size is at least the party
\* size, one entry each, closed and full slots included; a search for an
\* unknown restaurant answers 404.
C7_ExactSlots ==
    \A i \in SearchInputs :
        Authenticated(i[1]) =>
            IF \E r \in restaurants : r.name = i[2]
            THEN /\ Search(i).status = 200
                 /\ {e.slot : e \in Search(i).available_slots}
                       = {sl.id : sl \in {x \in slots :
                             /\ \E r \in restaurants : r.name = i[2] /\ r.id = x.restaurant_id
                             /\ x.date = i[3]
                             /\ x.max_party_size >= i[4]}}
                 /\ \A e1 \in Search(i).available_slots, e2 \in Search(i).available_slots :
                       e1.slot = e2.slot => e1 = e2
                 /\ \A e \in Search(i).available_slots : e.max_party_size = SlotRow(e).max_party_size
            ELSE /\ Search(i).status = 404
                 /\ Search(i).detail = "Restaurant not found"
                 /\ Search(i).available_slots = {}

\* a search for a party of exactly a slot's max_party_size that answers a
\* full slot and a closed slot, both with available false
C7_Witness ==
    \E i \in SearchInputs :
        /\ \E e \in Search(i).available_slots :
              e.max_party_size = i[4] /\ ~e.available /\ SlotRow(e).available
        /\ \E e \in Search(i).available_slots : ~e.available /\ ~SlotRow(e).available

\* C8: a slot at whose restaurant, date and time three or more confirmed
\* bookings are stored is reported with available false whatever its own flag
\* says, and when no confirmed booking is stored for the searched date every
\* returned slot has current_bookings 0.
C8_CeilingAndZero ==
    \A i \in SearchInputs :
        Search(i).status = 200 =>
            \A e \in Search(i).available_slots :
                /\ Cardinality(Confirmed(SlotRow(e).restaurant_id, i[3], SlotRow(e).time)) >= 3
                      => ~e.available
                /\ (~\E b \in bookings : b.status = "confirmed" /\ b.visit_date = i[3])
                      => e.current_bookings = 0

\* three confirmed bookings at a slot whose flag is set, reported unavailable,
\* while the same search for a date without confirmed bookings answers slots
C8_Witness ==
    \E i \in SearchInputs :
        /\ \E e \in Search(i).available_slots :
              /\ SlotRow(e).available
              /\ e.current_bookings = max_bookings_per_slot
              /\ ~e.available
        /\ \E d \in Dates :
              /\ Search(<<i[1], i[2], d, i[4]>>).available_slots # {}
              /\ ~\E b \in bookings : b.status = "confirmed" /\ b.visit_date = d

\* the insert of request p finds its reference stored by another request
\* since p's uniqueness query
Overtaken(p) == reference_taken(reqs[p].ref)

UnknownNames == {rname \in RestaurantNames : restaurant_by_name(rname) = {}}

\* a request for an unknown restaurant is answered 404 and writes nothing
C9_Unknown(p, tok, rname, form) ==
    /\ create_booking_lookup(tok, rname) = {Response(404, "Restaurant not found", {}, bookings)}
    /\ bookings' = bookings
    /\ customers' = customers

\* a request that goes on was made by an authenticated user for a known
\* restaurant, and records the user, the name and the references stored so far
C9_Begun(p) ==
    \E tok \in Tokens, rname \in RestaurantNames \ UnknownNames, form \in CreateForms :
        /\ create_booking_begin(p, tok, rname, form)
        /\ Authenticated(tok)
        /\ reqs'[p].user_id = Caller(tok)
        /\ reqs'[p].rname = rname
        /\ reqs'[p].refs0 = {b.booking_reference : b \in bookings}

C9_Added(p, row) ==
    /\ row \notin bookings
    /\ create_booking_insert_response(p).booking = {row}
    /\ row.status = "confirmed"
    /\ row.user_id = reqs[p].user_id
    /\ \E r \in restaurants : r.name = reqs[p].rname /\ r.id = row.restaurant_id
    /\ Len(row.booking_reference) = 7
    /\ \A k \in 1..7 : row.booking_reference[k] \in ascii_uppercase \cup digits
    /\ row.booking_reference \notin reqs[p].refs0
    /\ \A b \in bookings : b.booking_reference # row.booking_reference

C9_Insert(p) ==
    IF Overtaken(p)
    THEN create_booking_insert_response(p).status = 500 /\ bookings' = bookings
    ELSE /\ create_booking_insert_response(p).status = 200
         /\ \E row \in bookings' : bookings' = bookings \cup {row} /\ C9_Added(p, row)

C10_OneCustomerPerUser ==
    /\ \A c1 \in customers, c2 \in customers : c1.user_id = c2.user_id => c1 = c2
    /\ \A b \in bookings : \E c \in customers : c.id = b.customer_id /\ c.user_id = b.user_id

\* the owner's update_booking and cancel_booking requests on booking b
Update(tok, b, form) ==
    update_booking_response(tok, restaurant_of(b).name, b.booking_reference, form)

Cancel(tok, b, id) ==
    cancel_booking_response(tok, restaurant_of(b).name, b.booking_reference, id)

\* C11: update_booking by the owner on a cancelled booking answers 400 and
\* writes nothing; on a booking of any other status it is accepted.
C11_UpdateRefusedIffCancelled ==
    \A tok \in Tokens, b \in bookings, form \in UpdateForms :
        Owner(tok, b) =>
            IF b.status = "cancelled"
            THEN Update(tok, b, form).status = 400 /\ Update(tok, b, form).bookings = bookings
            ELSE Update(tok, b, form).status = 200

\* an owner with a cancelled booking, whose update is refused, and a booking
\* that is neither confirmed nor cancelled, whose update is accepted
C11_Witness ==
    \E tok \in Tokens, b1 \in bookings, b2 \in bookings, form \in UpdateForms :
        /\ Owner(tok, b1) /\ Owner(tok, b2)
        /\ b1.status = "cancelled"
        /\ b2.status \in {"pending", "completed", "no_show"}
        /\ updated_fields(form)
        /\ Update(tok, b1, form).detail = "Cannot update a cancelled booking"
        /\ Update(tok, b2, form).bookings # bookings

\* the value a patched column gets: the supplied value, or the old one
Patched(supplied, old) == IF supplied = {} THEN old ELSE The(supplied)

\* C12: an accepted update_booking sets each of visit_date, visit_time,
\* party_size and special_requests that the form supplies to the supplied
\* value and leaves every omitted one, and status, booking_reference, user_id,
\* restaurant_id and customer_id, as they were; no other row changes; with no
\* field supplied nothing is written, updated_at included.
C12_UpdateFrame ==
    \A tok \in Tokens, b \in bookings, form \in UpdateForms :
        (Owner(tok, b) /\ Update(tok, b, form).status = 200) =>
            LET r == Update(tok, b, form)
                supplied == ~(form.VisitDate = {} /\ form.VisitTime = {}
                                /\ form.PartySize = {} /\ form.SpecialRequests = {})
            IN  IF ~supplied THEN r.bookings = bookings
                ELSE \E row \in r.bookings :
                        /\ r.bookings \ {row} = bookings \ {b}
                        /\ row.visit_date = Patched(form.VisitDate, b.visit_date)
                        /\ row.visit_time = Patched(form.VisitTime, b.visit_time)
                        /\ row.party_size = Patched(form.PartySize, b.party_size)
                        /\ row.special_requests
                              = (IF form.SpecialRequests = {} THEN b.special_requests
                                 ELSE form.SpecialRequests)
                        /\ row.id = b.id
                        /\ row.status = b.status
                        /\ row.booking_reference = b.booking_reference
                        /\ row.user_id = b.user_id
                        /\ row.restaurant_id = b.restaurant_id
                        /\ row.customer_id = b.customer_id
                        /\ row.cancellation_reason_id = b.cancellation_reason_id

\* a booking created with a special request, after an update that supplied
\* the visit time only: the time is the supplied one, the request is kept
C12_Witness ==
    \E b \in bookings :
        /\ b.special_requests = {"window"}
        /\ b.visit_time = Time(19, 0)
        /\ b.party_size = 7
        /\ b.updated_at = clock - 1
        /\ clock = 2
        /\ \E tok \in Tokens, form \in UpdateForms :
              Owner(tok, b) /\ ~updated_fields(form) /\ Update(tok, b, form).bookings = bookings

\* C13: cancel_booking by the owner on a booking that is not cancelled, with
\* a reason id that is not in the cancellation-reason table, answers 400 and
\* writes nothing; with a reason id of the table it sets status to cancelled
\* and cancellation_reason_id to that id and leaves visit_date, visit_time and
\* party_size as they were.
C13_CancelReason ==
    \A tok \in Tokens, b \in bookings, id \in ReasonIds :
        (Owner(tok, b) /\ b.status # "cancelled") =>
            IF id \notin {rs.id : rs \in reasons}
            THEN Cancel(tok, b, id).status = 400 /\ Cancel(tok, b, id).bookings = bookings
            ELSE /\ Cancel(tok, b, id).status = 200
                 /\ \E row \in Cancel(tok, b, id).bookings :
                       /\ Cancel(tok, b, id).bookings \ {row} = bookings \ {b}
                       /\ row.id = b.id
                       /\ row.status = "cancelled"
                       /\ row.cancellation_reason_id = {id}
                       /\ row.visit_date = b.visit_date
                       /\ row.visit_time = b.visit_time
                       /\ row.party_size = b.party_size

\* a booking cancelled in this run with a reason of the table, and another
\* booking of the same owner whose cancel with an unknown reason is refused
C13_Witness ==
    \E tok \in Tokens, b1 \in bookings, b2 \in bookings :
        /\ Owner(tok, b1) /\ Owner(tok, b2)
        /\ b1.status = "cancelled"
        /\ b1.cancellation_reason_id = {2}
        /\ b1.updated_at >= 0
        /\ b2.status # "cancelled"
        /\ Cancel(tok, b2, 9).detail = "Invalid cancellation reason ID"

\* the five statuses of the enumeration
Statuses == {"confirmed", "pending", "cancelled", "completed", "no_show"}

\* C14: for every status s of a booking and every status t of the five,
\* update_booking_status by the owner is accepted, leaves the booking in status
\* t (cancelled to confirmed and s = t included), changes no other row, and
\* reports old_status s and new_status t.
C14_AnyTransition ==
    \A tok \in Tokens, b \in bookings, t \in Statuses :
        Owner(tok, b) =>
            LET r == update_booking_status_response(tok, b.booking_reference, t)
            IN  /\ r.status = 200
                /\ r.old_status = {b.status}
                /\ r.new_status = {t}
                /\ \E row \in r.bookings :
                      /\ r.bookings \ {row} = bookings \ {b}
                      /\ row.id = b.id
                      /\ row.status = t

\* a booking that cancel_booking cancelled and update_booking_status then
\* confirmed again, and a booking whose status would be rewritten to itself
C14_Witness ==
    \E tok \in Tokens, b \in bookings :
        /\ Owner(tok, b)
        /\ b.status = "confirmed"
        /\ b.cancellation_reason_id # {}
        /\ update_booking_status_response(tok, b.booking_reference, "confirmed").old_status
              = {"confirmed"}

\* C15: every stored booking's status is one of confirmed, pending,
\* cancelled, completed, no_show.
C15_StatusInEnumeration ==
    \A b \in bookings : b.status \in {"confirmed", "pending", "cancelled", "completed", "no_show"}

\* a booking that a status update left in no_show, and an update to a status
\* outside the enumeration that is not accepted
C15_Witness ==
    \E tok \in Tokens, b \in bookings :
        /\ Owner(tok, b)
        /\ b.status = "no_show"
        /\ update_booking_status_response(tok, b.booking_reference, "deleted").status # 200
        /\ update_booking_status_response(tok, b.booking_reference, "deleted").bookings = bookings

\* C16: update_booking_status answers 400 for a new_status outside the five
\* statuses, 404 for a reference under which the caller owns no booking, and
\* writes nothing in either case.
C16_StatusErrors ==
    \A tok \in Tokens, ref \in RefInputs, st \in StatusInputs :
        Authenticated(tok) =>
            LET r == update_booking_status_response(tok, ref, st)
                owned == \E b \in bookings : b.booking_reference = ref /\ b.user_id = Caller(tok)
            IN  /\ st \notin Statuses => r.status = 400 /\ r.bookings = bookings
                /\ (st \in Statuses /\ ~owned) => r.status = 404 /\ r.bookings = bookings

\* a token that does not decode, or whose subject is no user's email
BadToken(tok) == ~tok.good \/ ~\E u \in users : u.email = tok.sub

Rejected(r) == r.status = 401 /\ r.booking = {} /\ r.bookings = bookings /\ r.listed = <<>>

\* C17: a request whose token does not decode or names no user is answered
\* 401 by every handler, with no row in the answer and nothing written; a
\* create_booking request with such a token takes no step that changes the
\* state, so it adds no booking and no customer.
C17_BadTokenRejected ==
    \A tok \in Tokens :
        BadToken(tok) =>
            /\ \A rname \in RestaurantNames :
                  /\ \A r \in create_booking_lookup(tok, rname) : Rejected(r)
                  /\ create_booking_lookup(tok, rname) # {}
                  /\ \A p \in Procs, form \in CreateForms :
                        ~ENABLED <<create_booking_begin(p, tok, rname, form)>>_vars
                  /\ \A ref \in RefInputs :
                        /\ Rejected(get_booking_response(tok, rname, ref))
                        /\ \A form \in UpdateForms :
                              Rejected(update_booking_response(tok, rname, ref, form))
                        /\ \A id \in ReasonIds :
                              Rejected(cancel_booking_response(tok, rname, ref, id))
                  /\ \A d \in Dates, n \in PartySizes :
                        /\ Rejected(availability_search_response(tok, rname, d, n))
                        /\ availability_search_response(tok, rname, d, n).available_slots = {}
            /\ \A ref \in RefInputs, st \in StatusInputs :
                  Rejected(update_booking_status_response(tok, ref, st))
            /\ \A r \in ListingResponses(tok) : Rejected(r)

\* after a booking was written: the undecodable token that names the
\* booking's owner is answered "Invalid token", the token of no user "User
\* not found"
C17_Witness ==
    \E tok1 \in Tokens, tok2 \in Tokens, b \in bookings :
        /\ clock >= 1
        /\ ~tok1.good
        /\ \E u \in users : u.email = tok1.sub /\ u.id = b.user_id
        /\ get_booking_response(tok1, restaurant_of(b).name, b.booking_reference).detail
              = "Invalid token"
        /\ tok2.good
        /\ \A r \in create_booking_lookup(tok2, restaurant_of(b).name) : r.detail = "User not found"
        /\ create_booking_lookup(tok2, restaurant_of(b).name) # {}

\* every bearer-authenticated handler answers a request with this token 401
\* and writes nothing
HandlersReject(tok) ==
    /\ \A rname \in RestaurantNames :
          /\ \E r \in create_booking_lookup(tok, rname) : r.status = 401
          /\ \A ref \in RefInputs :
                /\ Rejected(get_booking_response(tok, rname, ref))
                /\ \A form \in UpdateForms : Rejected(update_booking_response(tok, rname, ref, form))
                /\ \A id \in ReasonIds : Rejected(cancel_booking_response(tok, rname, ref, id))
          /\ \A d \in Dates, n \in PartySizes :
                Rejected(availability_search_response(tok, rname, d, n))
    /\ \A ref \in RefInputs, st \in StatusInputs :
          Rejected(update_booking_status_response(tok, ref, st))
    /\ \A r \in ListingResponses(tok) : Rejected(r)
    /\ delete_user_account_response(tok).status = 401
    /\ delete_user_account_response(tok).users = users

\* C18: for a user whose is_active is false, every request with a token of
\* that user, a token obtained through refresh included, is answered 401 by
\* every bearer-authenticated handler, every login with the user's email is
\* answered 401 whatever the password, no step of any handler makes the user
\* active again, and no step removes a booking of the user; delete_user_account
\* itself leaves the bookings table as it is.
C18_DeactivatedStaysOut ==
    /\ \A u \in users :
          ~u.is_active =>
              /\ \A tok \in AccountTokens :
                    tok.sub = u.email =>
                        /\ HandlersReject(tok)
                        /\ \A t \in refresh_access_token_response(tok).access_token :
                              t.sub = u.email /\ HandlersReject(t)
              /\ \A password \in Passwords :
                    /\ login_for_access_token_response(u.email, password).status = 401
                    /\ login_for_access_token_response(u.email, password).access_token = {}
                    /\ login_for_access_token_response(u.email, password).refresh_token = {}
              /\ ~ENABLED (AccountNext /\ \E v \in users' : v.id = u.id /\ v.is_active)
              /\ ~ENABLED (AccountNext /\ \E b \in bookings :
                              b.user_id = u.id /\ ~\E b2 \in bookings' : b2.id = b.id)
    /\ \A tok \in AccountTokens : ~ENABLED (delete_user_account(tok) /\ bookings' # bookings)

\* a deactivated user who has bookings, whose login with the correct password
\* is refused as deactivated and whose token is refreshed but refused, while
\* another user is still active
C18_Witness ==
    \E u \in users, v \in users, password \in Passwords, tok \in AccountTokens :
        /\ ~u.is_active
        /\ v.is_active
        /\ \E b \in bookings : b.user_id = u.id
        /\ verify_password(password, u.password_hash)
        /\ login_for_access_token_response(u.email, password).detail = "Account has been deactivated"
        /\ tok.sub = u.email
        /\ refresh_access_token_response(tok).status = 200
        /\ get_current_user(tok).detail = "Account has been deactivated"

\* C19: no two users share an email and no two users share a username.
C19_UniqueUsers ==
    \A u1 \in users, u2 \in users :
        (u1.email = u2.email \/ u1.username = u2.username) => u1 = u2

\* a registration that passed the email query and now, at its insert, finds
\* its username stored by a concurrent registration under another email
C19_Witness ==
    \E p \in Procs, u \in users :
        /\ reqs[p].pc = "register_insert"
        /\ u.username = reqs[p].form.username
        /\ u.email # reqs[p].form.email
        /\ u.id > 2
        /\ register_user_insert_response(reqs[p].form).status = 500

\* C20: register_user with an email or a username that a user already has
\* answers 400, issues no token and leaves the users table as it is.
C20_DuplicateIs400 ==
    \A user_data \in RegisterForms :
        (\E u \in users : u.email = user_data.email \/ u.username = user_data.username) =>
            /\ register_user_response(user_data).status = 400
            /\ register_user_response(user_data).access_token = {}
            /\ register_user_response(user_data).refresh_token = {}
            /\ register_user_response(user_data).users = users

----------------------------------------------------------------------------
(* Reviews *)

Review(tok, b, rating, now) ==
    create_review_response(tok, [booking_reference |-> b.booking_reference, rating |-> rating], now)

Past(b, now) == ~datetime_gt(b.visit_date, b.visit_time, now)

Reviewed(tok, b) ==
    \E rv \in reviews : rv.user_id = Caller(tok) /\ rv.booking_reference = b.booking_reference

\* C22: no two stored reviews have the same user and booking reference; a
\* create_review by the owner of a completed, past booking with a rating of
\* 1 to 5 stores one review when the user has not reviewed the booking, and is
\* answered 400 and stores nothing when the user has.
C22_OneReviewPerBooking ==
    /\ \A rv1 \in reviews, rv2 \in reviews :
          (rv1.user_id = rv2.user_id /\ rv1.booking_reference = rv2.booking_reference) => rv1 = rv2
    /\ \A tok \in Tokens, b \in bookings, now \in Nows, rating \in Ratings \cap (1..5) :
          (Owner(tok, b) /\ b.status = "completed" /\ Past(b, now)) =>
              LET r == Review(tok, b, rating, now)
              IN  IF Reviewed(tok, b)
                  THEN r.status = 400 /\ r.reviews = reviews
                  ELSE /\ r.status = 200
                       /\ Cardinality(r.reviews \ reviews) = 1
                       /\ \A rv \in r.reviews \ reviews :
                             rv.user_id = Caller(tok) /\ rv.booking_reference = b.booking_reference

\* C23: create_review for another user's booking is answered 403; for the
\* caller's own booking that is not completed, or not yet past, or with a
\* rating outside 1 to 5, it is answered 400; in both cases no review is
\* stored, so a review is stored only when all four conditions hold.
C23_ReviewGuards ==
    \A tok \in Tokens, b \in bookings, now \in Nows, rating \in Ratings :
        LET r == Review(tok, b, rating, now)
        IN  /\ Stranger(tok, b) => r.status = 403 /\ r.reviews = reviews
            /\ (Owner(tok, b) /\ (b.status # "completed" \/ ~Past(b, now) \/ ~(rating \in 1..5))) =>
                  r.status = 400 /\ r.reviews = reviews
            /\ r.reviews # reviews =>
                  Owner(tok, b) /\ b.status = "completed" /\ Past(b, now) /\ rating \in 1..5

----------------------------------------------------------------------------
(* Start-up *)

\* the tables one run of init_sample_data that meets no error leaves
SeededAsOneRun ==
    /\ restaurants = {restaurants_data[i] : i \in DOMAIN restaurants_data}
    /\ \E flags \in [slot_keys(restaurants_data) -> BOOLEAN] :
          slots = new_slots(restaurants_data, flags)
    /\ reasons = cancellation_reasons

\* C24: whenever a run of init_sample_data has returned without an error,
\* whether it seeded the tables or skipped because data was there, and however
\* many runs came before it, failed ones included, the restaurants, slots and
\* cancellation reasons are those that one successful run leaves.
C24_SeedRunsAgree ==
    (boot.pc = "up" /\ boot.outcome \in {"seeded", "skipped"}) => SeededAsOneRun

----------------------------------------------------------------------------
(* Migration *)

\* the position of a table in the sequence of inserted tables, 0 when absent
InsertedAt(table_name) ==
    IF \E i \in DOMAIN migrator.inserted : migrator.inserted[i] = table_name
    THEN CHOOSE i \in DOMAIN migrator.inserted : migrator.inserted[i] = table_name
    ELSE 0

\* C25: once migrate_data has returned without error, every table of the
\* source database has the same rows in the target, so verify_migration finds
\* no row count that differs, and every inserted table came after each table
\* its foreign keys reference.
C25_MigrationComplete ==
    migrator.pc \in {"migrated", "verified"} =>
        /\ \A t \in TableNames : postgres[t] = sqlite(t)
        /\ migrator.pc = "verified" => migrator.mismatch = {}
        /\ \A t \in TableNames : \A u \in references(t) :
              InsertedAt(t) > 0 => (InsertedAt(u) > 0 /\ InsertedAt(u) < InsertedAt(t))

----------------------------------------------------------------------------
(* The ceiling of the availability search and create_booking *)

\* the confirmed bookings at the restaurant, date and time a request asks for
ConfirmedAt(req) == Confirmed(req.restaurant_id, req.form.VisitDate, req.form.VisitTime)

\* C26: an insert of create_booking whose reference is not taken succeeds
\* however many confirmed bookings the restaurant has at that date and time,
\* and adds one more confirmed booking there; so the number of confirmed
\* bookings of a slot passes the ceiling of 3 that the search applies
\* (reached by two requests that both met 2 confirmed bookings).
C26_CeilingNotEnforced ==
    \A p \in Procs :
        (reqs[p].pc = "insert" /\ ~Overtaken(p)) =>
            LET r == create_booking_insert_response(p)
            IN  /\ r.status = 200
                /\ \A b \in r.booking :
                      /\ b.status = "confirmed"
                      /\ b \in {x \in r.bookings : x.status = "confirmed" /\ x.restaurant_id = reqs[p].restaurant_id
                                                    /\ x.visit_date = reqs[p].form.VisitDate
                                                    /\ x.visit_time = reqs[p].form.VisitTime}
                /\ Cardinality(r.bookings) = Cardinality(bookings) + 1

\* four confirmed bookings at the date and time of a slot that is open: the
\* two stored ones and those of two requests that both began from them
C26_Witness ==
    \E sl \in slots :
        /\ sl.available
        /\ Cardinality(Confirmed(sl.restaurant_id, sl.date, sl.time)) = max_bookings_per_slot + 1
        /\ StoredBookings \subseteq Confirmed(sl.restaurant_id, sl.date, sl.time)

----------------------------------------------------------------------------
(* Failed requests, the reference loop, cancellation reasons, slots *)

\* C27: a create_booking that fails leaves nothing it wrote: every stored
\* customer is the customer of a stored booking or of a request still in
\* flight, so no Customer row is left behind by a request whose booking
\* insert failed.
C27_FailedCreateLeavesNothing ==
    \A c \in customers :
        \/ \E b \in bookings : b.customer_id = c.id
        \/ \E p \in InFlight : reqs[p].customer_id = c.id

\* C28: a request in the reference loop can always leave it: its next step
\* either finds a reference that no stored booking uses or gives up, in every
\* state of the bookings table.
C28_LoopCanEnd ==
    \A p \in Procs : reqs[p].pc = "gen_ref" => ENABLED <<create_booking_gen_ref(p)>>_vars

\* C29: a cancelled booking has the id of a stored cancellation reason, and a
\* booking that is not cancelled has no cancellation reason id.
C29_ReasonIffCancelled ==
    \A b \in bookings :
        IF b.status = "cancelled"
        THEN b.cancellation_reason_id # {}
             /\ \A id \in b.cancellation_reason_id : \E cr \in reasons : cr.id = id
        ELSE b.cancellation_reason_id = {}

\* the slots of the restaurant, date and time of a request
SlotsAt(req) ==
    {sl \in slots : sl.restaurant_id = req.restaurant_id /\ sl.date = req.form.VisitDate
                      /\ sl.time = req.form.VisitTime}

----------------------------------------------------------------------------
(* Round trip *)

\* the answers of login for a user and the password the user holds
Logins(u) ==
    {l \in {login_for_access_token_response(u.email, password) : password \in Passwords} :
        l.status = 200}

\* C21: when create_booking stores a booking for a user, registered before
\* the start or by register_user, that user's login is accepted and, with the
\* token it returns, get_booking for the same restaurant and the returned
\* reference, asked right after the insert, returns one booking whose
\* visit_date, visit_time and party_size are those of the submitted form.
C21_RoundTrip ==
    [][\A p \in Procs :
          (reqs[p].pc = "insert" /\ reqs'[p].pc = "idle" /\ bookings' # bookings) =>
              \A u \in users, rname \in KnownNames, form \in CreateForms, ref \in RefInputs :
                  (/\ u.id = reqs[p].user_id
                   /\ rname = reqs[p].rname
                   /\ form = reqs[p].form
                   /\ \E b \in create_booking_insert_response(p).booking : b.booking_reference = ref) =>
                      /\ Logins(u) # {}
                      /\ \A l \in Logins(u) : \A tok \in l.access_token :
                            /\ get_booking_response(tok, rname, ref)'.status = 200
                            /\ get_booking_response(tok, rname, ref)'.booking # {}
                            /\ \A b \in get_booking_response(tok, rname, ref)'.booking :
                                  /\ b.visit_date = form.VisitDate
                                  /\ b.visit_time = form.VisitTime
                                  /\ b.party_size = form.PartySize
                                  /\ b.booking_reference = ref
                                  /\ b.user_id = u.id]_vars

\* a user who registered and logged in holds a booking that get_booking
\* returns with the values of a submitted form
C21_Witness ==
    \E u \in users \ SeedUsers, b \in bookings, form \in CreateForms, rname \in KnownNames :
        /\ b.user_id = u.id
        /\ Logins(u) # {}
        /\ \A l \in Logins(u) : \A tok \in l.access_token :
              /\ get_booking_response(tok, rname, b.booking_reference).booking = {b}
              /\ b.visit_date = form.VisitDate
              /\ b.visit_time = form.VisitTime
              /\ b.party_size = form.PartySize

====
